---- MODULE Spec2Model ----
(***************************************************************************)
(* A model of the version registry of Electron Fiddle                      *)
(* (src/renderer/versions.ts), of the catalog the main process serves      *)
(* (src/main/fiddle-core.ts), of the main window (src/main/windows.ts)     *)
(* and of the ports of the isolated runner                                 *)
(* (src/renderer/isolated-runner.ts).                                      *)
(*                                                                         *)
(* Representation.                                                         *)
(*  - A JavaScript object is a TLA+ record whose DOMAIN is the set of the  *)
(*    properties it carries; a property that is absent (or undefined: the  *)
(*    code only ever reads properties, so the two are indistinguishable    *)
(*    to it and JSON.stringify drops undefined ones) is not in the DOMAIN. *)
(*  - A version string is the sequence of its tokens, so that includes,    *)
(*    startsWith, semver.parse and normalizeVersion are computed on the    *)
(*    text: "v10.0.0-beta.1" is <<"v","10",".","0",".","0","-","beta",     *)
(*    ".","1">> and the empty string is <<>>.                              *)
(*  - Every other string (name, localPath, url, a path) is a TLA+ string.  *)
(***************************************************************************)
EXTENDS Integers, Sequences, FiniteSets, TLC

VARIABLES
  store,    \* localStorage['local-electron-versions']: the raw item
  fromLs,   \* the raw item read by the load of the current operation
  op,       \* the operation that ran last
  arg,      \* its input
  ret,      \* its outcome: [kind |-> "return" | "throw", val |-> ...]
  saved,    \* <<list>> while the last write was saveLocalVersions(list)
            \* and nothing but a load has run since; <<>> otherwise
  pref,     \* localStorage['version']: the stored preference
  disk,     \* the executable paths that exist on disk
  known,    \* main process: electronVersions.versions, as version strings
  pending,  \* <<catalog>> while a getElectronVersions call holds the answer
            \* of getKnownVersions and has not resumed; <<>> otherwise
  reported, \* the localPaths some earlier call reported as installed
  lastLoad, \* <<list>> when the operation before the last one was a load
            \* that migrated the store and returned list; <<>> otherwise
  instants, \* while an observed getElectronVersions call is under way, and
            \* when it has just returned: the pairs <<catalog, local list>>
            \* that were current at its await and after every step since
  env,      \* process.env.NUM_STABLE_BRANCHES
  mainIsReadyPromise, \* windows.ts: "pending" or "resolved"
  browserWindows,     \* windows.ts: the windows created, oldest first
  calls,    \* the getOrCreateMainWindow() calls: where each one stands
  ports,    \* isolated-runner.ts: which of the two ports have been set
  posted,   \* the messages posted to the parent-frame port, in order
  focused,  \* whether the start button holds the focus
  threw     \* whether a handler of the runner has thrown a TypeError

\* the state of the main window and of the isolated runner
unrelated == <<env, mainIsReadyPromise, browserWindows, calls,
               ports, posted, focused, threw>>

vars == <<store, fromLs, op, arg, ret, saved, pref, disk, known, pending,
          reported, lastLoad, instants, unrelated>>

\* what the operations of the local store leave alone
notStore == <<pref, disk, known, pending, reported, unrelated>>

----------------------------------------------------------------------------
(* Bounds of the model *)

\* longest list handed to saveLocalVersions
MaxLen == 2
\* addLocalVersion is not called once the stored list is this long
MaxStore == 3
\* longest raw array found in localStorage at start-up (SpecLoad)
MaxRaw == 2
\* longest candidate list handed to getDefaultVersion
MaxCandidates == 3
\* most steps observed between the await of a getElectronVersions call and
\* its resumption
MaxInterleave == 2
\* number of getOrCreateMainWindow calls
MaxCalls == 5

----------------------------------------------------------------------------
(* Version strings *)

V9 == <<"9", ".", "0", ".", "0">>
V10 == <<"10", ".", "0", ".", "0">>
V11beta == <<"11", ".", "0", ".", "0", "-", "beta", ".", "1">>
Vv1 == <<"v", "1", ".", "0", ".", "0">>
V8 == <<"8", ".", "0", ".", "0">>
V10_1 == <<"10", ".", "1", ".", "0">>
EmptyString == <<>>

----------------------------------------------------------------------------
(* JavaScript values *)

\* the JSON value null as an array item
JSNull == [null |-> TRUE]

\* o.k is not undefined
Has(o, k) == k \in DOMAIN o

\* the properties whose values are version strings (token sequences)
VersionProps == {"version", "tag_name"}

\* !!o.k for a string-valued property
Truthy(o, k) ==
  /\ Has(o, k)
  /\ IF k \in VersionProps THEN o[k] # EmptyString ELSE o[k] # ""

\* a.k === b.k
SameProp(a, b, k) ==
  /\ Has(a, k) = Has(b, k)
  /\ Has(a, k) => a[k] = b[k]

\* the lists over S of length at most n
SeqsUpTo(S, n) == UNION {[1..k -> S] : k \in 0..n}

----------------------------------------------------------------------------
(* localStorage items                                                      *)
(*   [kind |-> "absent"]              getItem returns null                 *)
(*   [kind |-> "text", text |-> t]    a string that is not a JSON array    *)
(*   [kind |-> "array", items |-> s]  the JSON text of the array s         *)

Absent == [kind |-> "absent"]
Text(t) == [kind |-> "text", text |-> t]

\* the strings that are JSON texts of something other than an array
NonArrayJSON == {"null", "{}", "5"}

\* JSON.stringify(versions) followed by localStorage.setItem
JSONstringify(versions) == [kind |-> "array", items |-> versions]

\* JSON.parse(item): the value, or a SyntaxError
JSONparse(item) ==
  CASE item.kind = "array" -> [ok |-> TRUE, isArray |-> TRUE, items |-> item.items]
    [] item.kind = "text" /\ item.text \in NonArrayJSON ->
         [ok |-> TRUE, isArray |-> FALSE, items |-> <<>>]
    [] OTHER -> [ok |-> FALSE, isArray |-> FALSE, items |-> <<>>]

\* if (fromLs): null and the empty string are falsy
ItemTruthy(item) == item.kind # "absent" /\ ~(item.kind = "text" /\ item.text = "")

----------------------------------------------------------------------------
(* versions.ts: the local store *)

VersionSourceLocal == "local"
VersionSourceRemote == "remote"

\* isElectronVersion: input.source !== undefined
isElectronVersion(input) == Has(input, "source")

\* input.every((entry) => !!entry.version) over the items of an array:
\* "true", "false", or "throw" (reading .version of null is a TypeError);
\* every stops at the first entry that fails.
RECURSIVE EveryHasVersion(_)
EveryHasVersion(items) ==
  IF items = <<>> THEN "true"
  ELSE IF Head(items) = JSNull THEN "throw"
  ELSE IF ~Truthy(Head(items), "version") THEN "false"
  ELSE EveryHasVersion(Tail(items))

\* isExpectedFormat(input); a value that is not an array has no every()
isExpectedFormat(input) ==
  IF ~input.isArray THEN "throw" ELSE EveryHasVersion(input.items)

\* the map step of migrateVersions
MigrateItem(item) ==
  IF ~Truthy(item, "tag_name") \/ ~Truthy(item, "name") \/ ~Truthy(item, "url")
  THEN JSNull
  ELSE [version |-> item.tag_name, name |-> item.name, localPath |-> item.url]

\* migrateVersions(input)
migrateVersions(input) ==
  LET nonNull == SelectSeq(input, LAMBDA item : item # JSNull)
      mapped == [i \in 1..Len(nonNull) |-> MigrateItem(nonNull[i])]
  IN SelectSeq(mapped, LAMBDA item : item # JSNull)

\* a filter that keeps what has a localPath, whatever its source
KeepOnSave_byLocalPath(v) == Truthy(v, "localPath")

\* a filter that keeps everything
KeepOnSave_all(v) == TRUE

\* the filter of saveLocalVersions
KeepOnSave(v) ==
  IF isElectronVersion(v) THEN v.source = VersionSourceLocal ELSE TRUE

\* saveVersions(VersionKeys.local, versions): the new item
saveVersions(versions) == JSONstringify(versions)

\* saveLocalVersions(versions): the new item
saveLocalVersions(versions) == saveVersions(SelectSeq(versions, KeepOnSave))

\* getVersions with the shape validation outside the try block
getVersions_uncaught(item) ==
  LET fallback == [kind |-> "return", val |-> <<>>, store |-> item]
      parsed == JSONparse(item)
      fmt == isExpectedFormat(parsed)
  IN IF ~ItemTruthy(item) THEN fallback
     ELSE IF ~parsed.ok THEN fallback
     ELSE IF fmt = "throw" THEN [kind |-> "throw", val |-> <<>>, store |-> item]
     ELSE IF fmt = "true"
       THEN [kind |-> "return", val |-> parsed.items, store |-> item]
     ELSE LET result == migrateVersions(parsed.items)
          IN [kind |-> "return", val |-> result,
              store |-> saveLocalVersions(result)]

\* getVersions returning the migrated list without writing it back
getVersions_unsaved(item) ==
  LET fallback == [kind |-> "return", val |-> <<>>, store |-> item]
      parsed == JSONparse(item)
      fmt == isExpectedFormat(parsed)
  IN IF ~ItemTruthy(item) THEN fallback
     ELSE IF ~parsed.ok THEN fallback
     ELSE IF fmt = "throw" THEN fallback
     ELSE IF fmt = "true"
       THEN [kind |-> "return", val |-> parsed.items, store |-> item]
     ELSE [kind |-> "return", val |-> migrateVersions(parsed.items),
           store |-> item]

\* getVersions(VersionKeys.local, () => []): how the call ends, the list
\* returned and the item left in localStorage.  JSON.parse, isExpectedFormat,
\* migrateVersions and saveLocalVersions all run inside the try block, whose
\* catch falls through to the fallback.
getVersions(item) ==
  LET fallback == [kind |-> "return", val |-> <<>>, store |-> item]
      parsed == JSONparse(item)
      fmt == isExpectedFormat(parsed)
  IN IF ~ItemTruthy(item) THEN fallback
     ELSE IF ~parsed.ok THEN fallback
     ELSE IF fmt = "throw" THEN fallback
     ELSE IF fmt = "true"
       THEN [kind |-> "return", val |-> parsed.items, store |-> item]
     ELSE LET result == migrateVersions(parsed.items)
          IN [kind |-> "return", val |-> result,
              store |-> saveLocalVersions(result)]

\* getLocalVersions()
getLocalVersions(item) == getVersions(item)

\* versions.find((v) => v.localPath === input.localPath) finds something
FindsPath(versions, input) ==
  \E i \in 1..Len(versions) : SameProp(versions[i], input, "localPath")

\* addLocalVersion(input): how the call ends, the list returned and the item
\* left in localStorage
addLocalVersion(item, input) ==
  LET loaded == getLocalVersions(item)
      versions == IF FindsPath(loaded.val, input)
                  THEN loaded.val
                  ELSE Append(loaded.val, input)
  IN IF loaded.kind = "throw" THEN loaded
     ELSE [kind |-> "return", val |-> versions,
           store |-> saveLocalVersions(versions)]

----------------------------------------------------------------------------
(* Version strings as text, and the semver package *)

\* the decimal tokens and their values
NumVal(t) ==
  CASE t = "0" -> 0 [] t = "1" -> 1 [] t = "2" -> 2 [] t = "8" -> 8
    [] t = "9" -> 9 [] t = "10" -> 10 [] t = "11" -> 11 [] t = "12" -> 12
    [] OTHER -> -1

IsNumeric(t) == NumVal(t) >= 0

\* tag.includes(token)
Includes(tag, token) == \E i \in 1..Len(tag) : tag[i] = token

\* semver's null
SemverNull == [valid |-> FALSE]

\* the tokens after position n
Drop(s, n) == SubSeq(s, n + 1, Len(s))

\* semver.parse(text): a SemVer object (major, minor, patch, prerelease and
\* .version, the canonical text) or null.  One leading "v" is accepted and
\* is not part of .version.
SemverParse(text) ==
  LET body == IF Len(text) > 0 /\ text[1] = "v" THEN Drop(text, 1) ELSE text
      mainOk == /\ Len(body) >= 5
                /\ IsNumeric(body[1]) /\ body[2] = "." /\ IsNumeric(body[3])
                /\ body[4] = "." /\ IsNumeric(body[5])
      rest == Drop(body, 5)
      restOk == \/ rest = <<>>
                \/ /\ Len(rest) >= 2
                   /\ rest[1] = "-"
                   /\ \A i \in 2..Len(rest) :
                        IF i % 2 = 0 THEN rest[i] \notin {".", "-", "v"}
                        ELSE rest[i] = "."
                   /\ Len(rest) % 2 = 0
  IN IF mainOk /\ restOk
     THEN [valid |-> TRUE,
           major |-> NumVal(body[1]), minor |-> NumVal(body[3]),
           patch |-> NumVal(body[5]),
           prerelease |-> SelectSeq(Drop(rest, 1), LAMBDA t : t # "."),
           version |-> body]
     ELSE SemverNull

\* the order of numbers, as -1, 0, 1
CompareInt(a, b) == IF a < b THEN -1 ELSE IF a > b THEN 1 ELSE 0

\* the alphabetical order of the prerelease words of the model
WordRank(t) ==
  CASE t = "alpha" -> 1 [] t = "beta" -> 2 [] t = "nightly" -> 3 [] OTHER -> 4

\* semver's compareIdentifiers: numbers before words, numbers by value
CompareIdentifiers(a, b) ==
  IF IsNumeric(a) /\ IsNumeric(b) THEN CompareInt(NumVal(a), NumVal(b))
  ELSE IF IsNumeric(a) THEN -1
  ELSE IF IsNumeric(b) THEN 1
  ELSE CompareInt(WordRank(a), WordRank(b))

\* SemVer.comparePre: a release is above its prereleases
RECURSIVE ComparePre(_, _)
ComparePre(p, q) ==
  IF p = <<>> /\ q = <<>> THEN 0
  ELSE IF p = <<>> THEN 1
  ELSE IF q = <<>> THEN -1
  ELSE IF CompareIdentifiers(Head(p), Head(q)) # 0
    THEN CompareIdentifiers(Head(p), Head(q))
  ELSE IF Tail(p) = <<>> /\ Tail(q) = <<>> THEN 0
  ELSE IF Tail(p) = <<>> THEN -1
  ELSE IF Tail(q) = <<>> THEN 1
  ELSE ComparePre(Tail(p), Tail(q))

\* semver.compare(a, b) of two SemVer objects
SemverCompare(a, b) ==
  IF a.major # b.major THEN CompareInt(a.major, b.major)
  ELSE IF a.minor # b.minor THEN CompareInt(a.minor, b.minor)
  ELSE IF a.patch # b.patch THEN CompareInt(a.patch, b.patch)
  ELSE ComparePre(a.prerelease, b.prerelease)

----------------------------------------------------------------------------
(* versions.ts: getDefaultVersion *)

\* localStorage['version']
NoPreference == [kind |-> "absent"]
Preference(text) == [kind |-> "string", text |-> text]

\* a filter that lets every candidate through
IsStable_all(ver) == TRUE

\* (ver) => !ver.version.includes('-')
IsStable(ver) == ~Includes(ver.version, "-")

\* the comparator without its minus sign
SortComparator_ascending(a, b) == SemverCompare(a, b)

\* (a, b) => -semver.compare(a, b)
SortComparator(a, b) == -SemverCompare(a, b)

\* Array.prototype.sort with that comparator: a stable insertion of x into a
\* sorted list, after the elements it does not precede
RECURSIVE Insert(_, _)
Insert(x, sorted) ==
  IF sorted = <<>> THEN <<x>>
  ELSE IF SortComparator(x, Head(sorted)) < 0 THEN <<x>> \o sorted
  ELSE <<Head(sorted)>> \o Insert(x, Tail(sorted))

RECURSIVE Sort(_)
Sort(list) ==
  IF list = <<>> THEN <<>>
  ELSE Insert(list[Len(list)], Sort(SubSeq(list, 1, Len(list) - 1)))

\* key && versions.some(({ version }) => version === key)
PreferenceMatches(key, versions) ==
  /\ key.kind = "string"
  /\ key.text # EmptyString
  /\ \E i \in 1..Len(versions) : versions[i].version = key.text

\* getDefaultVersion with the newest stable release taking precedence over
\* the stored preference
getDefaultVersion_stableFirst(key, versions) ==
  LET stable == SelectSeq(versions, IsStable)
      sorted == Sort([i \in 1..Len(stable) |-> SemverParse(stable[i].version)])
  IN IF sorted # <<>> /\ Head(sorted) # SemverNull
       THEN [kind |-> "return", val |-> Head(sorted).version]
     ELSE IF PreferenceMatches(key, versions)
       THEN [kind |-> "return", val |-> key.text]
     ELSE [kind |-> "throw", val |-> "Corrupted version data"]

\* getDefaultVersion(versions), key being localStorage['version'].  A list
\* with two or more stable entries one of which semver cannot parse makes the
\* comparator throw a TypeError.
getDefaultVersion(key, versions) ==
  LET stable == SelectSeq(versions, IsStable)
      parsed == [i \in 1..Len(stable) |-> SemverParse(stable[i].version)]
      sorted == Sort(parsed)
  IN IF PreferenceMatches(key, versions)
       THEN [kind |-> "return", val |-> key.text]
     ELSE IF Len(parsed) >= 2 /\ \E i \in 1..Len(parsed) : parsed[i] = SemverNull
       THEN [kind |-> "throw", val |-> "TypeError"]
     ELSE IF sorted # <<>> /\ Head(sorted) # SemverNull
       THEN [kind |-> "return", val |-> Head(sorted).version]
     ELSE [kind |-> "throw", val |-> "Corrupted version data"]

----------------------------------------------------------------------------
(* versions.ts: install state and the assembled list *)

InstallStateInstalled == "installed"
InstallStateMissing == "missing"

\* Installer.getExecPath(localPath): the executable under that folder
ExecPath(localPath) == [folder |-> localPath, file |-> "electron"]

\* fs.existsSync(path)
existsSync(path) == path \in disk

\* getVersionState answering from what earlier calls reported
getVersionState_cached(ver) ==
  IF Has(ver, "localPath")
     /\ (ver.localPath \in reported \/ existsSync(ExecPath(ver.localPath)))
  THEN InstallStateInstalled
  ELSE InstallStateMissing

\* getVersionState(ver)
getVersionState(ver) ==
  IF Has(ver, "localPath") /\ existsSync(ExecPath(ver.localPath))
  THEN InstallStateInstalled
  ELSE InstallStateMissing

\* normalizeVersion(version): a leading "v" is removed
normalizeVersion(version) ==
  IF Len(version) > 0 /\ version[1] = "v" THEN Drop(version, 1) ELSE version

\* makeRunnable(ver)
makeRunnable(ver) ==
  [k \in DOMAIN ver \cup {"version", "source", "state"} |->
     CASE k = "version" -> normalizeVersion(ver.version)
       [] k = "source" -> IF Truthy(ver, "localPath")
                          THEN VersionSourceLocal
                          ELSE VersionSourceRemote
       [] k = "state" -> getVersionState(ver)
       [] OTHER -> ver[k]]

\* getReleasedVersions(), catalog being the answer of getKnownVersions
getReleasedVersions(catalog) ==
  [i \in 1..Len(catalog) |-> [version |-> catalog[i]]]

\* the local entries in front of the released ones
Concatenate_localFirst(released, local) == local \o released

\* [...released, ...local]
Concatenate(released, local) == released \o local

\* getElectronVersions() once getReleasedVersions() has resolved: how the call
\* ends, the list returned and the item left in localStorage
getElectronVersions(catalog, item) ==
  LET loaded == getLocalVersions(item)
      versions == Concatenate(getReleasedVersions(catalog), loaded.val)
  IN IF loaded.kind = "throw" THEN loaded
     ELSE [kind |-> "return",
           val |-> [i \in 1..Len(versions) |-> makeRunnable(versions[i])],
           store |-> loaded.store]

----------------------------------------------------------------------------
(* Inputs *)

\* the Version and RunnableVersion objects handed to the store's operations
InputVersions ==
  { [version |-> V10, localPath |-> "/p"],
    [version |-> V9],
    [version |-> EmptyString, localPath |-> "/q"],
    [version |-> V11beta, localPath |-> "/q",
     source |-> VersionSourceLocal, state |-> "installed"],
    [version |-> V9, source |-> VersionSourceRemote, state |-> "missing"],
    [version |-> Vv1, name |-> "n", localPath |-> "/p"] }

\* the items a raw array found in localStorage may hold
RawItems ==
  { JSNull,
    [tag_name |-> Vv1, name |-> "n", url |-> "/p"],
    [tag_name |-> V9, name |-> "m", url |-> "/q"],
    [tag_name |-> Vv1, name |-> "n"],
    [tag_name |-> Vv1, name |-> "", url |-> "/p"],
    [version |-> V10, localPath |-> "/p"],
    [version |-> EmptyString, localPath |-> "/q"] }

\* the raw items localStorage may hold when the program starts
RawStores ==
  {Absent} \cup {Text(t) : t \in {"", "{oops"} \cup NonArrayJSON}
    \cup {JSONstringify(s) : s \in SeqsUpTo(RawItems, MaxRaw)}

Return(v) == [kind |-> "return", val |-> v]

\* an environment variable that is not set
Unset == [kind |-> "unset"]

----------------------------------------------------------------------------
(* The store's operations *)

\* the load inside getVersions(item) takes the migration branch
Migrates(item) ==
  /\ ItemTruthy(item)
  /\ JSONparse(item).ok
  /\ isExpectedFormat(JSONparse(item)) = "false"

\* lastLoad after the next step: the list the last operation returned, when
\* it was a load that migrated
LoadJustMigrated ==
  IF op = "getLocalVersions" /\ Migrates(fromLs) THEN <<ret.val>> ELSE <<>>

\* instants after a step that leaves the main process with catalog and
\* localStorage with item: the pair is recorded while an observed call waits
Observed(catalog, item) ==
  IF pending # <<>> /\ instants # <<>>
  THEN Append(instants, <<catalog, getLocalVersions(item).val>>)
  ELSE <<>>

GetLocalVersions ==
  LET r == getLocalVersions(store)
  IN /\ op' = "getLocalVersions"
     /\ arg' = <<>>
     /\ fromLs' = store
     /\ ret' = [kind |-> r.kind, val |-> r.val]
     /\ store' = r.store
     /\ saved' = IF op = "saveLocalVersions" THEN saved ELSE <<>>
     /\ lastLoad' = LoadJustMigrated
     /\ UNCHANGED <<notStore, instants>>

SaveLocalVersions ==
  \E versions \in SeqsUpTo(InputVersions, MaxLen) :
    /\ op' = "saveLocalVersions"
    /\ arg' = versions
    /\ fromLs' = Absent
    /\ ret' = Return(<<>>)
    /\ store' = saveLocalVersions(versions)
    /\ saved' = <<versions>>
    /\ lastLoad' = LoadJustMigrated
    /\ UNCHANGED <<notStore, instants>>

AddLocalVersion ==
  \E input \in InputVersions :
    LET r == addLocalVersion(store, input)
    IN /\ Len(getLocalVersions(store).val) < MaxStore
       /\ pending # <<>> => Len(instants) <= MaxInterleave
       /\ op' = "addLocalVersion"
       /\ arg' = input
       /\ fromLs' = store
       /\ ret' = [kind |-> r.kind, val |-> r.val]
       /\ store' = r.store
       /\ saved' = <<>>
       /\ lastLoad' = LoadJustMigrated
       /\ instants' = Observed(known, r.store)
       /\ UNCHANGED notStore

Next == GetLocalVersions \/ SaveLocalVersions \/ AddLocalVersion

\* the catalog the main process starts with (static/releases.json)
InitialCatalog == <<V10, V9>>

InitOp ==
  /\ disk = {}
  /\ known = InitialCatalog
  /\ pending = <<>>
  /\ reported = {}
  /\ fromLs = Absent
  /\ op = "init"
  /\ arg = <<>>
  /\ ret = Return(<<>>)
  /\ saved = <<>>
  /\ lastLoad = <<>>
  /\ instants = <<>>

\* the main process has not signalled readiness and no window exists
InitWindows ==
  /\ mainIsReadyPromise = "pending"
  /\ browserWindows = <<>>
  /\ calls = [c \in 1..MaxCalls |-> [pc |-> "idle"]]

\* the runner's script has run: no port is set, nothing was posted
InitRunner ==
  /\ ports = [mainProcess |-> FALSE, parentFrame |-> FALSE]
  /\ posted = <<>>
  /\ focused = FALSE
  /\ threw = FALSE

InitElsewhere == env = Unset /\ InitWindows /\ InitRunner

\* a fresh profile: nothing stored yet
Init == store = Absent /\ pref = NoPreference /\ InitOp /\ InitElsewhere

Spec == Init /\ [][Next]_vars

\* nothing but addLocalVersion calls, from an empty store
NextAdd == AddLocalVersion

SpecAdd == Init /\ [][NextAdd]_vars

\* a profile left behind by an earlier run or an older release
InitLoad ==
  store \in RawStores /\ pref = NoPreference /\ InitOp /\ InitElsewhere

SpecLoad == InitLoad /\ [][Next]_vars

----------------------------------------------------------------------------
(* The default version *)

\* the versions of the candidates: canonical semantic versions, as the
\* version of a RunnableVersion is
CandidateVersions == {V9, V10, V10_1, V11beta}

\* the RunnableVersion of the catalog with that version
Candidate(v) ==
  [version |-> v, source |-> VersionSourceRemote, state |-> "missing"]

\* the values localStorage['version'] may hold
Preferences ==
  {NoPreference} \cup {Preference(v) : v \in {EmptyString, V8, V9, V11beta}}

GetDefaultVersion ==
  \E versions \in SeqsUpTo({Candidate(v) : v \in CandidateVersions}, MaxCandidates) :
    /\ op' = "getDefaultVersion"
    /\ arg' = versions
    /\ ret' = getDefaultVersion(pref, versions)
    /\ UNCHANGED <<store, fromLs, saved, pref, disk, known, pending, reported>>
    /\ UNCHANGED <<lastLoad, instants, unrelated>>

NextDefault == GetDefaultVersion

InitDefault ==
  store = Absent /\ pref \in Preferences /\ InitOp /\ InitElsewhere

SpecDefault == InitDefault /\ [][NextDefault]_vars

----------------------------------------------------------------------------
(* Install state and assembly *)

\* the folders whose executable may appear on disk; the empty string is the
\* folder of a localPath that is present and empty
LocalPaths == {"", "/p"}

\* the catalogs a fetch may deliver
Catalogs == {InitialCatalog, <<V9, V10, V11beta>>}

\* the versions whose state is asked for
StateInputs ==
  InputVersions \cup {[version |-> V10, localPath |-> ""]}

\* the localPaths of the entries of a list that are reported installed
InstalledPaths(list) ==
  {list[i].localPath : i \in {j \in 1..Len(list) :
      Has(list[j], "localPath") /\ list[j].state = InstallStateInstalled}}

\* an executable appears on disk
DiskInstall ==
  \E p \in LocalPaths :
    /\ ExecPath(p) \notin disk
    /\ disk' = disk \cup {ExecPath(p)}
    /\ op' = "diskInstall"
    /\ arg' = p
    /\ ret' = Return(<<>>)
    /\ saved' = <<>>
    /\ UNCHANGED <<store, fromLs, pref, known, pending, reported>>
    /\ UNCHANGED <<lastLoad, instants, unrelated>>

\* an executable is removed from disk
DiskRemove ==
  \E p \in LocalPaths :
    /\ ExecPath(p) \in disk
    /\ disk' = disk \ {ExecPath(p)}
    /\ op' = "diskRemove"
    /\ arg' = p
    /\ ret' = Return(<<>>)
    /\ saved' = <<>>
    /\ UNCHANGED <<store, fromLs, pref, known, pending, reported>>
    /\ UNCHANGED <<lastLoad, instants, unrelated>>

GetVersionState ==
  \E ver \in StateInputs :
    /\ op' = "getVersionState"
    /\ arg' = ver
    /\ ret' = Return(getVersionState(ver))
    /\ reported' = IF getVersionState(ver) = InstallStateInstalled
                   THEN reported \cup {ver.localPath}
                   ELSE reported
    /\ saved' = <<>>
    /\ UNCHANGED <<store, fromLs, pref, disk, known, pending>>
    /\ UNCHANGED <<lastLoad, instants, unrelated>>

MakeRunnable ==
  \E ver \in StateInputs :
    /\ op' = "makeRunnable"
    /\ arg' = ver
    /\ ret' = Return(makeRunnable(ver))
    /\ reported' = IF makeRunnable(ver).state = InstallStateInstalled
                   THEN reported \cup {ver.localPath}
                   ELSE reported
    /\ saved' = <<>>
    /\ UNCHANGED <<store, fromLs, pref, disk, known, pending>>
    /\ UNCHANGED <<lastLoad, instants, unrelated>>

\* electronVersions.fetch() completes in the main process
FetchCompletes ==
  \E catalog \in Catalogs :
    /\ catalog # known
    /\ pending # <<>> => Len(instants) <= MaxInterleave
    /\ known' = catalog
    /\ instants' = Observed(catalog, store)
    /\ op' = "fetch"
    /\ arg' = <<>>
    /\ ret' = Return(<<>>)
    /\ saved' = <<>>
    /\ UNCHANGED <<store, fromLs, pref, disk, pending, reported>>
    /\ UNCHANGED <<lastLoad, unrelated>>

\* getElectronVersions() up to its await: the main process answers
\* GET_KNOWN_VERSIONS with the catalog it holds
GetElectronVersionsAwait ==
  /\ pending = <<>>
  /\ pending' = <<known>>
  /\ op' = "getKnownVersions"
  /\ arg' = <<>>
  /\ ret' = Return(<<>>)
  /\ saved' = <<>>
  /\ UNCHANGED <<store, fromLs, pref, disk, known, reported>>
  /\ UNCHANGED <<lastLoad, instants, unrelated>>

\* the same step, observed: the catalog and the local list that are current
\* when the main process answers are recorded
GetElectronVersionsAwaitObserved ==
  /\ pending = <<>>
  /\ pending' = <<known>>
  /\ instants' = <<<<known, getLocalVersions(store).val>>>>
  /\ op' = "getKnownVersions"
  /\ arg' = <<>>
  /\ ret' = Return(<<>>)
  /\ saved' = <<>>
  /\ UNCHANGED <<store, fromLs, pref, disk, known, reported>>
  /\ UNCHANGED <<lastLoad, unrelated>>

\* a resumption that asks the main process for its catalog again
GetElectronVersionsResume_freshCatalog ==
  /\ pending # <<>>
  /\ LET r == getElectronVersions(known, store)
     IN /\ op' = "getElectronVersions"
        /\ arg' = known
        /\ fromLs' = store
        /\ ret' = [kind |-> r.kind, val |-> r.val]
        /\ store' = r.store
        /\ reported' = reported \cup InstalledPaths(r.val)
  /\ pending' = <<>>
  /\ saved' = <<>>
  /\ UNCHANGED <<pref, disk, known>>
  /\ UNCHANGED <<lastLoad, instants, unrelated>>

\* getElectronVersions() from its await on: the local entries are loaded,
\* every entry is made runnable, the list is returned
GetElectronVersionsResume ==
  /\ pending # <<>>
  /\ LET r == getElectronVersions(pending[1], store)
     IN /\ op' = "getElectronVersions"
        /\ arg' = pending[1]
        /\ fromLs' = store
        /\ ret' = [kind |-> r.kind, val |-> r.val]
        /\ store' = r.store
        /\ reported' = reported \cup InstalledPaths(r.val)
  /\ pending' = <<>>
  /\ saved' = <<>>
  /\ UNCHANGED <<pref, disk, known>>
  /\ UNCHANGED <<lastLoad, instants, unrelated>>

NextAssemble ==
  \/ DiskInstall
  \/ DiskRemove
  \/ GetVersionState
  \/ FetchCompletes
  \/ GetElectronVersionsAwait
  \/ GetElectronVersionsResume
  \/ AddLocalVersion

SpecAssemble == Init /\ [][NextAssemble]_vars

\* makeRunnable while executables come and go
NextRunnable == DiskInstall \/ DiskRemove \/ MakeRunnable

SpecRunnable == Init /\ [][NextRunnable]_vars

\* one getElectronVersions call at a time, observed, among catalog refreshes
\* and addLocalVersion calls; nothing is on disk
NextSnapshot ==
  \/ FetchCompletes
  \/ AddLocalVersion
  \/ GetElectronVersionsAwaitObserved
  \/ GetElectronVersionsResume

SpecSnapshot == Init /\ [][NextSnapshot]_vars

----------------------------------------------------------------------------
(* Properties of the local store *)

\* a load that directly follows saveLocalVersions(saved[1])
ReloadAfterSave == op = "getLocalVersions" /\ saved # <<>>

\* the derived source of v is local
DerivedLocal(v) == Truthy(v, "localPath")

\* v carries no source discriminant, or the discriminant says local
PlainOrLocal(v) == ~Has(v, "source") \/ v.source = VersionSourceLocal

\* C1 as stated: saving a list and reloading yields exactly the sub-list of
\* the entries whose derived source is local (localPath truthy), in order.
C1_RoundTripDerivedLocal ==
  ReloadAfterSave =>
    /\ ret.kind = "return"
    /\ ret.val = SelectSeq(saved[1], DerivedLocal)

\* C1 as amended: saving a list and reloading yields the sub-list of the
\* entries that carry no source discriminant or whose source is local, in
\* order, when each of them has a non-empty version; when one of them has an
\* empty version the reload migrates the stored list and, these entries
\* having no legacy triple, yields the empty list.
C1_RoundTripPlainOrLocal ==
  ReloadAfterSave =>
    LET kept == SelectSeq(saved[1], PlainOrLocal)
    IN /\ ret.kind = "return"
       /\ ret.val = IF \A i \in 1..Len(kept) : Truthy(kept[i], "version")
                    THEN kept
                    ELSE <<>>

\* C1 witness: a reload after saving a plain entry without localPath next to
\* a remote RunnableVersion returns the plain entry alone.
C1_Witness ==
  /\ ReloadAfterSave
  /\ Len(saved[1]) = 2
  /\ \E i \in 1..2 : Has(saved[1][i], "source") /\ saved[1][i].source = VersionSourceRemote
  /\ Len(ret.val) = 1
  /\ ~DerivedLocal(ret.val[1])

\* the entries persisted under the local key (none unless an array is stored)
Persisted == IF store.kind = "array" THEN store.items ELSE <<>>

\* C2 as stated: every persisted local entry carries a truthy localPath.
C2_PersistedHaveLocalPath ==
  \A i \in 1..Len(Persisted) : DerivedLocal(Persisted[i])

\* C2 as amended: no persisted local entry carries a source discriminant
\* other than local (an entry without the discriminant is persisted whether
\* or not it has a localPath).
C2_PersistedNeverSourceRemote ==
  \A i \in 1..Len(Persisted) : PlainOrLocal(Persisted[i])

\* C2 witness: a save whose input held a remote RunnableVersion, which the
\* write dropped.
C2_Witness ==
  /\ op = "saveLocalVersions"
  /\ \E i \in 1..Len(arg) : Has(arg[i], "source") /\ arg[i].source = VersionSourceRemote
  /\ Len(Persisted) = Len(arg) - 1
  /\ Len(Persisted) > 0

\* C3 as stated: starting from an empty store, every persisted local entry
\* has a non-empty version field.
C3_PersistedHaveVersion ==
  \A i \in 1..Len(Persisted) : Truthy(Persisted[i], "version")

\* item carries the legacy triple, all three non-empty
HasLegacyTriple(item) ==
  /\ item # JSNull
  /\ Truthy(item, "tag_name")
  /\ Truthy(item, "name")
  /\ Truthy(item, "url")

\* the legacy entry rewritten
Rewritten(item) ==
  [version |-> item.tag_name, name |-> item.name, localPath |-> item.url]

\* the list the migration is specified to produce
MigratedList(items) ==
  LET legacy == SelectSeq(items, HasLegacyTriple)
  IN [i \in 1..Len(legacy) |-> Rewritten(legacy[i])]

\* the raw item is an array that does not pass the shape validation: some
\* entry exposes no non-empty version field
ValidationFails(item) ==
  /\ item.kind = "array"
  /\ \E i \in 1..Len(item.items) :
       item.items[i] = JSNull \/ ~Truthy(item.items[i], "version")

\* C4 as stated: whenever shape validation fails for the local key, the load
\* returns the migrated list and leaves exactly that list persisted.
C4_MigrationOnLoad ==
  (op = "getLocalVersions" /\ ValidationFails(fromLs)) =>
    /\ ret = Return(MigratedList(fromLs.items))
    /\ store = JSONstringify(MigratedList(fromLs.items))

\* a raw item that is absent or is not valid JSON
AbsentOrInvalidJSON(item) ==
  \/ item.kind = "absent"
  \/ item.kind = "text" /\ item.text \notin NonArrayJSON

\* C5: whatever the local key holds, getLocalVersions returns a list and
\* does not raise; when the key is absent or holds invalid JSON it returns
\* the empty list and leaves the store as it was.
C5_LoadNeverRaises ==
  op = "getLocalVersions" =>
    /\ ret.kind = "return"
    /\ DOMAIN ret.val = 1..Len(ret.val)
    /\ AbsentOrInvalidJSON(fromLs) => (ret.val = <<>> /\ store = fromLs)

\* C5 witness: a load of an array holding null has returned the fallback.
C5_Witness ==
  /\ op = "getLocalVersions"
  /\ fromLs.kind = "array"
  /\ \E i \in 1..Len(fromLs.items) : fromLs.items[i] = JSNull
  /\ ret = Return(<<>>)

----------------------------------------------------------------------------
(* Properties of getDefaultVersion *)

\* the versions of the candidates handed to the last getDefaultVersion
ArgVersions == {arg[i].version : i \in 1..Len(arg)}

\* the stored preference exists and equals the version of a candidate
PreferenceIsCandidate ==
  /\ pref.kind = "string"
  /\ pref.text # EmptyString
  /\ pref.text \in ArgVersions

\* the versions of the candidates that contain no '-'
StableArgVersions == {v \in ArgVersions : ~Includes(v, "-")}

\* <<major, minor, patch>> of a canonical version without '-'
Triple(v) == <<NumVal(v[1]), NumVal(v[3]), NumVal(v[5])>>

\* semantic-version order on such versions: v is at least w
AtLeast(v, w) ==
  LET a == Triple(v)
      b == Triple(w)
  IN \/ a[1] > b[1]
     \/ a[1] = b[1] /\ a[2] > b[2]
     \/ a[1] = b[1] /\ a[2] = b[2] /\ a[3] >= b[3]

\* C6: a stored preference that equals the version of some candidate is
\* returned verbatim, whatever the other candidates are.
C6_StickyPreference ==
  (op = "getDefaultVersion" /\ PreferenceIsCandidate) =>
    ret = [kind |-> "return", val |-> pref.text]

\* C6 witness: the preferred 9.0.0 was returned although 10.1.0 is a candidate.
C6_Witness ==
  /\ op = "getDefaultVersion"
  /\ pref = Preference(V9)
  /\ V10_1 \in ArgVersions
  /\ ret = [kind |-> "return", val |-> V9]

\* C7: with no stored preference, or one that matches no candidate, and at
\* least one candidate without '-', the result is the greatest, in
\* semantic-version order, of the versions of the candidates without '-'.
C7_NewestStable ==
  (op = "getDefaultVersion" /\ ~PreferenceIsCandidate /\ StableArgVersions # {}) =>
    /\ ret.kind = "return"
    /\ ret.val \in StableArgVersions
    /\ \A w \in StableArgVersions : AtLeast(ret.val, w)

\* C7 witness: [10.0.0, 11.0.0-beta.1, 9.0.0] without a preference gave 10.0.0.
C7_Witness ==
  /\ op = "getDefaultVersion"
  /\ pref = NoPreference
  /\ arg = <<Candidate(V10), Candidate(V11beta), Candidate(V9)>>
  /\ ret = [kind |-> "return", val |-> V10]

\* every candidate of the last call contains '-' (an empty list included)
AllPreRelease == StableArgVersions = {}

CorruptedVersionData == [kind |-> "throw", val |-> "Corrupted version data"]

\* C8 as stated: over an all-pre-release or empty candidate list the call
\* raises 'Corrupted version data'.
C8_AllPreReleaseThrows ==
  (op = "getDefaultVersion" /\ AllPreRelease) => ret = CorruptedVersionData

\* C8 as amended: over an all-pre-release or empty candidate list the call
\* raises 'Corrupted version data', unless a stored preference equals the
\* version of a candidate (that preference is then returned).
C8_AllPreReleaseThrowsUnlessPreferred ==
  (op = "getDefaultVersion" /\ AllPreRelease) =>
    ret = IF PreferenceIsCandidate
          THEN [kind |-> "return", val |-> pref.text]
          ELSE CorruptedVersionData

\* C8 witness: a non-empty all-pre-release list has raised.
C8_Witness ==
  /\ op = "getDefaultVersion"
  /\ AllPreRelease
  /\ Len(arg) = 2
  /\ ret = CorruptedVersionData

----------------------------------------------------------------------------
(* Properties of the install state and of the assembled list *)

\* v has a localPath and the executable computed from it is on disk now
OnDisk(v) == Has(v, "localPath") /\ ExecPath(v.localPath) \in disk

\* C9: each getVersionState call, and each entry of each assembled list,
\* reports installed exactly when the version has a localPath and the
\* executable path computed from it exists on disk at the time of the call,
\* whatever earlier calls reported; without a localPath it reports missing.
C9_StateTracksDisk ==
  /\ op = "getVersionState" =>
       (ret.val = InstallStateInstalled <=> OnDisk(arg))
  /\ op = "getElectronVersions" =>
       \A i \in 1..Len(ret.val) :
         /\ ret.val[i].state \in {InstallStateInstalled, InstallStateMissing}
         /\ ret.val[i].state = InstallStateInstalled <=> OnDisk(ret.val[i])

\* C9 witness: a build that an earlier call reported installed, removed from
\* disk since, is reported missing.
C9_Witness ==
  /\ op = "getVersionState"
  /\ Has(arg, "localPath")
  /\ arg.localPath \in reported
  /\ ret.val = InstallStateMissing

\* C10: the assembled list is the catalog received by the call followed by
\* the local entries, entry for entry and in order, nothing merged.
C10_OrderedConcatenation ==
  op = "getElectronVersions" =>
    LET n == Len(arg)
        m == Len(Persisted)
    IN /\ ret.kind = "return"
       /\ Len(ret.val) = n + m
       /\ \A i \in 1..n :
            /\ ret.val[i].version = normalizeVersion(arg[i])
            /\ ~Has(ret.val[i], "localPath")
       /\ \A j \in 1..m :
            /\ ret.val[n + j].version = normalizeVersion(Persisted[j].version)
            /\ SameProp(ret.val[n + j], Persisted[j], "localPath")
            /\ SameProp(ret.val[n + j], Persisted[j], "name")

\* C10 witness: a version of the catalog that is also stored locally came
\* back twice, once per source.
C10_Witness ==
  /\ op = "getElectronVersions"
  /\ \E i \in 1..Len(arg) : \E j \in (Len(arg) + 1)..Len(ret.val) :
       /\ ret.val[i].version = ret.val[j].version
       /\ ret.val[i].source = VersionSourceRemote
       /\ ret.val[j].source = VersionSourceLocal

----------------------------------------------------------------------------
(* versions.ts: getOldestSupportedMajor *)

\* longest catalog held by the main process (SpecSupport)
MaxCatalog == 5

V11 == <<"11", ".", "0", ".", "0">>
V12 == <<"12", ".", "0", ".", "0">>

\* a value of process.env.NUM_STABLE_BRANCHES that is set
Setting(text) == [kind |-> "string", text |-> text]

\* parseInt(text) of a setting: the decimal number, or -1 for NaN
ParseIntText(text) ==
  CASE text = "1" -> 1 [] text = "2" -> 2 [] text = "3" -> 3
    [] OTHER -> -1

\* the default number of supported branches
DefaultBranches == 4

\* parseInt(process.env.NUM_STABLE_BRANCHES || '') || 4
NUM_BRANCHES(setting) ==
  LET text == IF setting.kind = "unset" \/ setting.text = "" THEN "" ELSE setting.text
  IN IF ParseIntText(text) = -1 \/ ParseIntText(text) = 0
     THEN DefaultBranches
     ELSE ParseIntText(text)

\* ver.version.endsWith('.0.0')
EndsWithDotZeroDotZero(version) ==
  /\ Len(version) >= 4
  /\ SubSeq(version, Len(version) - 3, Len(version)) = <<".", "0", ".", "0">>

\* Number.parseInt(ver.version): the leading decimal number, or -1 for NaN
ParseIntVersion(version) ==
  IF Len(version) > 0 /\ IsNumeric(version[1]) THEN NumVal(version[1]) ELSE -1

\* the comparator (a, b) => b - a
CompareNumbers_descending(a, b) == b - a

\* the comparator (a, b) => a - b
CompareNumbers(a, b) == a - b

\* Array.prototype.sort with that comparator (stable), by insertion
RECURSIVE InsertNumber(_, _)
InsertNumber(sorted, n) ==
  IF sorted = <<>> THEN <<n>>
  ELSE IF CompareNumbers(sorted[Len(sorted)], n) <= 0 THEN Append(sorted, n)
  ELSE Append(InsertNumber(SubSeq(sorted, 1, Len(sorted) - 1), n),
              sorted[Len(sorted)])

RECURSIVE SortNumbers(_)
SortNumbers(list) ==
  IF list = <<>> THEN <<>>
  ELSE InsertNumber(SortNumbers(SubSeq(list, 1, Len(list) - 1)), list[Len(list)])

\* a slice that is empty when the list is shorter than the count asked for
Slice_strict(list, start) ==
  IF start < 0 /\ Len(list) + start < 0 THEN <<>>
  ELSE SubSeq(list, (IF start < 0 THEN Len(list) + start ELSE start) + 1, Len(list))

\* list.slice(start): a negative start counts from the end and is clamped
\* to the beginning of the list
Slice(list, start) ==
  LET from == IF start < 0
              THEN (IF Len(list) + start < 0 THEN 0 ELSE Len(list) + start)
              ELSE (IF start > Len(list) THEN Len(list) ELSE start)
  IN SubSeq(list, from + 1, Len(list))

\* JavaScript's undefined, as the outcome of a call
Undefined == [kind |-> "undefined"]

\* list.shift(): the first element, or undefined
Shift(list) == IF list = <<>> THEN Undefined ELSE Return(list[1])

\* the versions of the catalog that end in '.0.0'
BranchMarkers(catalog) == SelectSeq(catalog, EndsWithDotZeroDotZero)

\* getOldestSupportedMajor() with that setting, the main process answering
\* with that catalog
getOldestSupportedMajor(setting, catalog) ==
  LET markers == BranchMarkers(catalog)
      majors == [i \in 1..Len(markers) |-> ParseIntVersion(markers[i])]
  IN Shift(Slice(SortNumbers(majors), -NUM_BRANCHES(setting)))

\* the values of NUM_STABLE_BRANCHES: unset, empty, not a number, a count
Settings == {Unset} \cup {Setting(t) : t \in {"", "abc", "1", "2"}}

\* the releases a catalog is made of; a catalog lists a release once
Releases == {V8, V9, V10, V10_1, V11, V12}

SupportCatalogs ==
  {c \in SeqsUpTo(Releases, MaxCatalog) :
     \A i, j \in 1..Len(c) : c[i] = c[j] => i = j}

GetOldestSupportedMajor ==
  /\ op' = "getOldestSupportedMajor"
  /\ arg' = known
  /\ ret' = getOldestSupportedMajor(env, known)
  /\ UNCHANGED <<store, fromLs, saved, pref, disk, known, pending, reported>>
  /\ UNCHANGED <<lastLoad, instants, unrelated>>

NextSupport == GetOldestSupportedMajor

InitSupport ==
  /\ store = Absent /\ pref = NoPreference
  /\ disk = {} /\ pending = <<>> /\ reported = {}
  /\ fromLs = Absent /\ op = "init" /\ arg = <<>> /\ ret = Return(<<>>)
  /\ saved = <<>> /\ lastLoad = <<>> /\ instants = <<>>
  /\ known \in SupportCatalogs
  /\ env \in Settings
  /\ InitWindows /\ InitRunner

SpecSupport == InitSupport /\ [][NextSupport]_vars

\* the majors of the branch markers of the catalog received, as a set
MarkerMajors == {ParseIntVersion(arg[i]) : i \in {j \in 1..Len(arg) :
                   EndsWithDotZeroDotZero(arg[j])}}

\* the supported-branch count the setting configures
ConfiguredCount ==
  IF env \in {Unset, Setting(""), Setting("abc")} THEN 4
  ELSE IF env = Setting("1") THEN 1 ELSE 2

\* the members of S with exactly k members of S above them
NthFromNewest(S, k) == {m \in S : Cardinality({n \in S : n > m}) = k - 1}

\* C11 (as stated): with fewer branch markers than the supported-branch
\* count, oldestSupportedMajor returns undefined
C11_FewerMarkersUndefined ==
  (op = "getOldestSupportedMajor" /\ Cardinality(MarkerMajors) < ConfiguredCount)
    => ret = Undefined

\* C11 (amended): with fewer branch markers than the supported-branch count,
\* oldestSupportedMajor never raises; it returns undefined when the catalog
\* has no branch marker at all and the smallest marker major otherwise
C11_FewerMarkersOldest ==
  (op = "getOldestSupportedMajor" /\ Cardinality(MarkerMajors) < ConfiguredCount)
    => IF MarkerMajors = {} THEN ret = Undefined
       ELSE /\ ret.kind = "return"
            /\ ret.val \in MarkerMajors
            /\ \A m \in MarkerMajors : ret.val <= m

\* three branch markers, the default count of four: the oldest is returned
C11_Witness ==
  /\ op = "getOldestSupportedMajor"
  /\ env = Unset
  /\ MarkerMajors = {9, 10, 12}
  /\ ret = Return(9)

\* C12: with at least N branch markers, oldestSupportedMajor returns the
\* Nth-from-newest marker major, whatever the order of the catalog; N is the
\* configured count, 4 when the setting is unset or not a number
C12_NthFromNewest ==
  (op = "getOldestSupportedMajor" /\ Cardinality(MarkerMajors) >= ConfiguredCount)
    => /\ ret.kind = "return"
       /\ NthFromNewest(MarkerMajors, ConfiguredCount) = {ret.val}

\* markers 12, 8, 10, 11, 9 in that order, no setting: 9
C12_Witness ==
  /\ op = "getOldestSupportedMajor"
  /\ env = Setting("abc")
  /\ arg = <<V12, V8, V10, V11, V9>>
  /\ ret = Return(9)

----------------------------------------------------------------------------
(* addLocalVersion: the list returned and the list persisted *)

\* C13: the list addLocalVersion returns is the content of the persisted
\* store when the call returns, and an immediately following
\* getLocalVersions() returns that same list
C13_ReturnedIsPersisted ==
  op = "addLocalVersion"
    => /\ store.kind = "array"
       /\ ret.val = store.items
       /\ getLocalVersions(store).val = ret.val

----------------------------------------------------------------------------
(* versions.ts: getReleaseChannel *)

\* longest tag handed to getReleaseChannel, in tokens
MaxTag == 3

ElectronReleaseChannelStable == "Stable"
ElectronReleaseChannelBeta == "Beta"
ElectronReleaseChannelNightly == "Nightly"

\* typeof input === 'string' ? input : input.version || ''
TagOf(input) ==
  IF input.kind = "string" THEN input.text
  ELSE IF Has(input.object, "version") THEN input.object.version
  ELSE EmptyString

\* a classification that looks for 'nightly' first
getReleaseChannel_nightlyFirst(input) ==
  LET tag == TagOf(input)
  IN IF Includes(tag, "nightly") THEN ElectronReleaseChannelNightly
     ELSE IF Includes(tag, "beta") \/ Includes(tag, "alpha")
       THEN ElectronReleaseChannelBeta
     ELSE ElectronReleaseChannelStable

\* getReleaseChannel(input)
getReleaseChannel(input) ==
  LET tag == TagOf(input)
  IN IF Includes(tag, "beta") \/ Includes(tag, "alpha")
       THEN ElectronReleaseChannelBeta
     ELSE IF Includes(tag, "nightly") THEN ElectronReleaseChannelNightly
     ELSE ElectronReleaseChannelStable

\* the tokens tags are made of
TagTokens == {"10", "0", ".", "-", "alpha", "beta", "nightly"}

\* the inputs: a tag as a string, or a Version carrying it (or none)
ChannelInputs ==
  {[kind |-> "string", text |-> t] : t \in SeqsUpTo(TagTokens, MaxTag)}
    \cup {[kind |-> "object", object |-> [version |-> t]] :
            t \in SeqsUpTo(TagTokens, MaxTag)}
    \cup {[kind |-> "object", object |-> [localPath |-> "/p"]]}

GetReleaseChannel ==
  /\ op = "init"
  /\ op' = "getReleaseChannel"
  /\ ret' = Return(getReleaseChannel(arg))
  /\ UNCHANGED <<arg, store, fromLs, saved, pref, disk, known, pending, reported>>
  /\ UNCHANGED <<lastLoad, instants, unrelated>>

NextChannel == GetReleaseChannel

InitChannel ==
  /\ store = Absent /\ pref = NoPreference
  /\ disk = {} /\ known = InitialCatalog /\ pending = <<>> /\ reported = {}
  /\ fromLs = Absent /\ op = "init" /\ ret = Return(<<>>)
  /\ saved = <<>> /\ lastLoad = <<>> /\ instants = <<>>
  /\ arg \in ChannelInputs
  /\ InitElsewhere

SpecChannel == InitChannel /\ [][NextChannel]_vars

\* the tag of the input of the call, and what it contains
ArgTag == IF arg.kind = "string" THEN arg.text
          ELSE IF "version" \in DOMAIN arg.object THEN arg.object.version
          ELSE <<>>

Contains(word) == \E i \in 1..Len(ArgTag) : ArgTag[i] = word

\* C14: the channel is beta if the tag contains 'alpha' or 'beta'; otherwise
\* nightly if it contains 'nightly'; otherwise stable
C14_ChannelPrecedence ==
  op = "getReleaseChannel"
    => /\ ret.kind = "return"
       /\ (Contains("alpha") \/ Contains("beta")) => ret.val = "Beta"
       /\ (~Contains("alpha") /\ ~Contains("beta") /\ Contains("nightly"))
            => ret.val = "Nightly"
       /\ (~Contains("alpha") /\ ~Contains("beta") /\ ~Contains("nightly"))
            => ret.val = "Stable"

\* a tag with 'alpha' and 'nightly' is classified beta
C14_Witness ==
  /\ op = "getReleaseChannel"
  /\ arg = [kind |-> "string", text |-> <<"alpha", "-", "nightly">>]
  /\ ret = Return("Beta")

----------------------------------------------------------------------------
(* getElectronVersions: what one call combines *)

\* the list assembled from that catalog and that local list
Assembled(catalog, local) ==
  LET versions == getReleasedVersions(catalog) \o local
  IN [i \in 1..Len(versions) |-> makeRunnable(versions[i])]

\* C15 (as stated): the list a call returns is (catalog ++ local entries) as
\* both stood at one single instant during the call
C15_OneInstant ==
  (op = "getElectronVersions" /\ instants # <<>>)
    => \E k \in 1..Len(instants) :
         ret.val = Assembled(instants[k][1], instants[k][2])

\* C15 (amended): the list a call returns is the catalog as it stood when the
\* main process answered, followed by the local entries as they stood when
\* the call resumed
C15_TwoInstants ==
  (op = "getElectronVersions" /\ instants # <<>>)
    => ret.val = Assembled(instants[1][1], instants[Len(instants)][2])

\* a refresh and an addLocalVersion both ran while the call waited: the list
\* returned matches no single instant
C15_Witness ==
  /\ op = "getElectronVersions"
  /\ Len(instants) = 3
  /\ instants[1][1] # instants[3][1]
  /\ instants[1][2] # instants[3][2]
  /\ ret.val = Assembled(instants[1][1], instants[3][2])
  /\ \A k \in 1..3 : ret.val # Assembled(instants[k][1], instants[k][2])

----------------------------------------------------------------------------
(* Migration on load is self-healing *)

\* C16: a load that comes right after a load that migrated finds a store
\* that passes the shape validation, returns the list the first load
\* returned and writes nothing
C16_MigrationHeals ==
  (op = "getLocalVersions" /\ lastLoad # <<>>)
    => /\ ItemTruthy(fromLs)
       /\ JSONparse(fromLs).ok
       /\ isExpectedFormat(JSONparse(fromLs)) = "true"
       /\ ret = Return(lastLoad[1])
       /\ store = fromLs

\* two loads in a row, the first of which migrated legacy entries into a
\* list that is not empty
C16_Witness ==
  /\ op = "getLocalVersions"
  /\ lastLoad # <<>>
  /\ lastLoad[1] # <<>>
  /\ ret.val = lastLoad[1]

----------------------------------------------------------------------------
(* makeRunnable: source and state *)

\* C17: a RunnableVersion made by makeRunnable whose source is remote has
\* state missing; state installed comes only with source local
C17_RemoteIsMissing ==
  op = "makeRunnable"
    => /\ ret.val.source = "remote" => ret.val.state = "missing"
       /\ ret.val.state = "installed" => ret.val.source = "local"

----------------------------------------------------------------------------
(* addLocalVersion: one entry per localPath *)

\* the list stored in that item
ItemsOf(item) == IF item.kind = "array" THEN item.items ELSE <<>>

\* C18 (as stated): after addLocalVersion calls only, no two persisted entries
\* have the same localPath, and a call whose input has a localPath that is
\* already stored leaves the stored list unchanged
C18_OnePerLocalPath ==
  /\ \A i, j \in 1..Len(Persisted) :
       SameProp(Persisted[i], Persisted[j], "localPath") => i = j
  /\ (op = "addLocalVersion" /\ Has(arg, "localPath")
        /\ FindsPath(ItemsOf(fromLs), arg))
       => Persisted = ItemsOf(fromLs)

\* the first half on its own
C18_UniqueLocalPaths ==
  \A i, j \in 1..Len(Persisted) :
    SameProp(Persisted[i], Persisted[j], "localPath") => i = j

----------------------------------------------------------------------------
(* windows.ts: getOrCreateMainWindow *)

\* the calls of getOrCreateMainWindow
Calls == 1..MaxCalls

\* no BrowserWindow
NoWindow == 0

\* BrowserWindow.getFocusedWindow(): no window holds the focus
getFocusedWindow == NoWindow

\* a createMainWindow that does not register the window it creates
createMainWindow_unregistered(c, windows) ==
  [window |-> c, browserWindows |-> windows]

\* createMainWindow() run by call c: the window created (named after the
\* call) and browserWindows after the push
createMainWindow(c, windows) ==
  [window |-> c, browserWindows |-> Append(windows, c)]

\* getFocusedWindow() || browserWindows[0] || createMainWindow(), in call c
FocusedOrFirstOrCreated(c, windows) ==
  IF getFocusedWindow # NoWindow
    THEN [window |-> getFocusedWindow, browserWindows |-> windows, created |-> FALSE]
  ELSE IF Len(windows) > 0 /\ windows[1] # NoWindow
    THEN [window |-> windows[1], browserWindows |-> windows, created |-> FALSE]
  ELSE [window |-> createMainWindow(c, windows).window,
        browserWindows |-> createMainWindow(c, windows).browserWindows,
        created |-> TRUE]

\* what the windows and the runner leave alone
notWindows == <<store, fromLs, op, arg, ret, saved, pref, disk, known, pending,
                reported, lastLoad, instants, env, ports, posted, focused, threw>>

\* getOrCreateMainWindow() is called and reaches its await
GetOrCreateMainWindowAwait ==
  \E c \in Calls :
    /\ calls[c].pc = "idle"
    /\ calls' = [calls EXCEPT ![c] = [pc |-> "awaiting"]]
    /\ UNCHANGED <<mainIsReadyPromise, browserWindows, notWindows>>

\* mainIsReady(), called once
MainIsReady ==
  /\ mainIsReadyPromise = "pending"
  /\ mainIsReadyPromise' = "resolved"
  /\ UNCHANGED <<calls, browserWindows, notWindows>>

\* a call resumes once the promise is resolved, and returns its window
GetOrCreateMainWindowResume ==
  \E c \in Calls :
    /\ calls[c].pc = "awaiting"
    /\ mainIsReadyPromise = "resolved"
    /\ LET r == FocusedOrFirstOrCreated(c, browserWindows)
       IN /\ calls' = [calls EXCEPT ![c] =
                         [pc |-> "resolved", window |-> r.window,
                          created |-> r.created]]
          /\ browserWindows' = r.browserWindows
    /\ UNCHANGED <<mainIsReadyPromise, notWindows>>

NextWindows ==
  \/ GetOrCreateMainWindowAwait
  \/ MainIsReady
  \/ GetOrCreateMainWindowResume

SpecWindows == Init /\ [][NextWindows]_vars

\* the calls that have resolved, and those among them that created a window
Resolved == {c \in Calls : calls[c].pc = "resolved"}
Creators == {c \in Resolved : calls[c].created}

\* C19: no getOrCreateMainWindow call resolves before mainIsReady has been
\* called, one window is created in total and every call resolves to it
C19_SingleMainWindow ==
  /\ Resolved # {} => mainIsReadyPromise = "resolved"
  /\ Cardinality(Creators) <= 1
  /\ Resolved # {} => Cardinality(Creators) = 1
  /\ \A c, d \in Resolved : calls[c].window = calls[d].window
  /\ \A c \in Resolved : browserWindows = <<calls[c].window>>

\* every call has resolved, to the window one of them created
C19_Witness ==
  /\ Resolved = Calls
  /\ Cardinality(Creators) = 1
  /\ \A c \in Calls : \A d \in Creators : calls[c].window = d

----------------------------------------------------------------------------
(* isolated-runner.ts: the ports *)

\* most messages posted to the parent-frame port
MaxPosts == 5

\* ports.parentFrame!.postMessage(message): the message is posted, or the
\* port is undefined and the handler throws a TypeError
PostToParentFrame(message) ==
  IF ports.parentFrame
  THEN /\ Len(posted) < MaxPosts
       /\ posted' = Append(posted, message)
       /\ UNCHANGED threw
  ELSE /\ threw' = TRUE
       /\ UNCHANGED posted

notRunner == <<store, fromLs, op, arg, ret, saved, pref, disk, known, pending,
               reported, lastLoad, instants, env, mainIsReadyPromise,
               browserWindows, calls>>

\* the window receives 'parent-frame' (posted by Runner.onLoad)
MessageParentFrame ==
  /\ ~ports.parentFrame
  /\ ports' = [ports EXCEPT !.parentFrame = TRUE]
  /\ UNCHANGED <<posted, focused, threw, notRunner>>

\* the window receives 'main-process'
MessageMainProcess ==
  /\ ~ports.mainProcess
  /\ ports' = [ports EXCEPT !.mainProcess = TRUE]
  /\ UNCHANGED <<posted, focused, threw, notRunner>>

\* ports.mainProcess.onmessage with a message of type 'response'
MainProcessResponse ==
  /\ ports.mainProcess
  /\ PostToParentFrame("data")
  /\ UNCHANGED <<ports, focused, notRunner>>

\* button.onfocus
ButtonFocus ==
  /\ ~focused
  /\ focused' = TRUE
  /\ PostToParentFrame("FOCUS")
  /\ UNCHANGED <<ports, notRunner>>

\* button.onblur
ButtonBlur ==
  /\ focused
  /\ focused' = FALSE
  /\ PostToParentFrame("BLUR")
  /\ UNCHANGED <<ports, notRunner>>

NextRunner ==
  \/ MessageParentFrame
  \/ MessageMainProcess
  \/ MainProcessResponse
  \/ ButtonFocus
  \/ ButtonBlur

SpecRunner == Init /\ [][NextRunner]_vars

\* C20: no post to the parent-frame port is attempted while that port is
\* unset, whatever the order of the messages and of the button's events
C20_PortSetBeforeUse == ~threw

====
